---- MODULE Spec2Model ----
(***************************************************************************)
(* Model of genqa's resumable chunk-processing pipeline                    *)
(* (src/genqa/extract.py): generate_qa_pairs, process_chunk, process_file  *)
(* and the checkpoint file process_file rewrites after every chunk.        *)
(*                                                                         *)
(* One document is processed by a sequence of process_file runs.  A run    *)
(* may be killed at any point (Crash); the checkpoint file survives the    *)
(* process, the in-memory state does not.                                  *)
(*                                                                         *)
(* Chunk positions: the code's 0-based chunk index i is the number of      *)
(* results already in result["chunks"]; chunks[i + 1] is that chunk in     *)
(* the 1-based sequences of TLA+.                                          *)
(* Temperatures are counted in whole increments of temperature_increment.  *)
(*                                                                         *)
(* Spec and SpecGen follow one document through any number of runs;        *)
(* SpecRechunk lets the chunking change between the runs; SpecBatch        *)
(* follows one invocation of main over a list of input paths.  SpecCsv is  *)
(* process_qa_file of src/genqa/make_csv.py on one checkpoint, SpecConvert *)
(* is DocToMarkdown.convert of src/genqa/src/convert.py on one input.      *)
(***************************************************************************)
EXTENDS Integers, Sequences, FiniteSets, TLC

VARIABLES
    n_chunks,       \* number of chunks semchunk yields for the document's text
    max_retries,    \* generate_qa_pairs: max_retries
    base_temperature, \* process_file: temperature
    disk,           \* the checkpoint file output_file: [exists, text]
    pc,             \* position of the running process_file, "idle" when none runs
    last,           \* history: how the last finished run ended
    overwrite,      \* process_file: overwrite, of the current (or last) run
    result,         \* process_file: result (the in-memory checkpoint)
    chunks,         \* process_file: chunks
    start,          \* process_file: len(result["chunks"]) when the loop is entered
    i,              \* process_file: loop index i
    attempt,        \* generate_qa_pairs: attempt
    temperature,    \* generate_qa_pairs: temperature
    calls_made,     \* history: model calls made by the current run
    generated,      \* history: what generate_qa_pairs gave for each chunk of this run
    response,       \* history: the model's response to the latest call for this chunk
    seen,           \* history: result count of the file when it was last loadable
    poisoned,       \* history: index of the first chunk whose failure on every
                    \* attempt was persisted, -1 when there is none yet
    inputs,         \* main: args.input
    args_overwrite, \* main: args.overwrite
    cursor,         \* main: number of input paths handed to process_file so far
    output_file,    \* process_file: output_file, the name of the file disk stands for
    output_dir,     \* the files of output_dir as the process_file call in hand found them
    outcomes        \* history: how process_file ended for the input paths before this one

\* the state of main and of the output directory beyond the file in hand
main_vars == <<inputs, args_overwrite, cursor, output_file, output_dir, outcomes>>

\* make_csv.py, process_qa_file
VARIABLES
    data,           \* process_qa_file: data, the loaded checkpoint
    csv_pc,         \* position of the generator: "chunks", "pairs" or "end"
    chunk_number,   \* process_qa_file: chunk_number
    qa_number,      \* process_qa_file: qa_number
    rows            \* the rows yielded so far

\* convert.py, DocToMarkdown.convert
VARIABLES
    input_data,     \* convert: input_data, [kind, ext]
    file_type,      \* convert: file_type as the caller gave it
    returned        \* what the call came to: a converter's text or an exception

tool_vars == <<data, csv_pc, chunk_number, qa_number, rows, input_data, file_type,
               returned>>

vars == <<n_chunks, max_retries, base_temperature, disk, pc, last, overwrite,
          result, chunks, start, i, attempt, temperature, calls_made, generated,
          response, seen, poisoned, main_vars, tool_vars>>

(***************************************************************************)
(* Bounds of the model                                                     *)
(***************************************************************************)
MaxChunks == 3
\* for the specification of generate_qa_pairs under any parameters
GenChunks == 2
MaxRetriesBound == 4
MaxBaseTemperature == 1
\* for the specification of runs under a changing chunk_size
MaxRechunk == 2
\* for the specification of main: the number of input paths
MaxBatch == 2
\* for the specification of process_qa_file: chunks of the checkpoint
MaxCsvChunks == 3

(***************************************************************************)
(* Program constants                                                       *)
(***************************************************************************)
DefaultMaxRetries == 3
TemperatureIncrement == 1
DefaultTemperature == 0

(***************************************************************************)
(* The document                                                            *)
(***************************************************************************)
SourcePath == "doc.html"

\* converter.convert(file_path): the extracted text of a document
Text(path) == <<"markdown of", path>>

MarkdownText == Text(SourcePath)

\* list(chunker(text)): the same text under the same chunk_size yields the
\* same chunk sequence; piece j of n pieces is not piece j of another number
chunker(text, n) == [j \in 1..n |-> <<text, n, j>>]

\* the input paths a batch can name: two of them share the stem
Documents == {"a/doc.html", "b/doc.pdf", "c/memo.html"}

\* Path(file_path).stem
Stem(path) ==
    CASE path \in {"a/doc.html", "b/doc.pdf", SourcePath} -> "doc"
      [] path = "c/memo.html" -> "memo"

\* line 125: output_dir / f"{file_path.stem}_qa.json"
OutputFile(path) == <<Stem(path), "_qa.json">>

OutputFiles == {OutputFile(p) : p \in Documents \cup {SourcePath}}

\* len(chunks) for the documents of the batch under the batch's chunk_size
ChunkCount(path) ==
    CASE path = "a/doc.html" -> 2
      [] path = "b/doc.pdf" -> 1
      [] path = "c/memo.html" -> 1

(***************************************************************************)
(* The model capability and its responses                                  *)
(***************************************************************************)
GoodPair == [question |-> "Q1", answer |-> "A1", supporting_quotes |-> <<"S1">>]
BlankPair == [question |-> "", answer |-> "A1", supporting_quotes |-> <<>>]

Strings == {"", "Q1", "A1", "S1"}

\* qa_schema: an array of objects with string question, string answer and
\* an array of strings supporting_quotes, all three required
qa_schema(v) ==
    \A k \in 1..Len(v) :
        /\ DOMAIN v[k] = {"question", "answer", "supporting_quotes"}
        /\ v[k].question \in Strings
        /\ v[k].answer \in Strings
        /\ \A q \in 1..Len(v[k].supporting_quotes) :
              v[k].supporting_quotes[q] \in Strings

JsonArrays == {<<>>, <<GoodPair>>, <<BlankPair>>}

\* What llm.create_chat_completion can do: raise, or return a message whose
\* content is JSON text constrained by response_format's schema; the text is
\* cut short (closed = FALSE) when generation stops before the closing bracket.
NoResponse == [raised |-> FALSE, closed |-> FALSE, value |-> <<"none">>]

ModelResponses ==
    {[raised |-> TRUE, closed |-> FALSE, value |-> <<>>]}
    \cup {[raised |-> FALSE, closed |-> FALSE, value |-> <<>>]}
    \cup {[raised |-> FALSE, closed |-> TRUE, value |-> v] :
             v \in {a \in JsonArrays : qa_schema(a)}}

\* an empty array is taken for a failed attempt
TryAttemptRejectingEmpty(resp) ==
    IF resp.raised THEN [ok |-> FALSE, output |-> <<>>, msg |-> "model error"]
    ELSE IF ~resp.closed THEN [ok |-> FALSE, output |-> <<>>, msg |-> "JSONDecodeError"]
    ELSE IF resp.value = <<>> THEN [ok |-> FALSE, output |-> <<>>, msg |-> "empty"]
    ELSE [ok |-> TRUE, output |-> resp.value, msg |-> ""]

\* lines 65-78 inside the try: the call, then json.loads of the content
TryAttempt(resp) ==
    IF resp.raised THEN [ok |-> FALSE, output |-> <<>>, msg |-> "model error"]
    ELSE IF ~resp.closed THEN [ok |-> FALSE, output |-> <<>>, msg |-> "JSONDecodeError"]
    ELSE [ok |-> TRUE, output |-> resp.value, msg |-> ""]

\* a comparison that lets the loop run out instead of raising
IsLastAttemptOffByOne(a, retries) == a = retries

\* line 82: attempt == max_retries - 1
IsLastAttempt(a, retries) == a = retries - 1

\* a retry at the temperature of the failed attempt
NextTemperatureKept(t) == t

\* line 84: temperature += temperature_increment
NextTemperature(t) == t + TemperatureIncrement

(***************************************************************************)
(* process_chunk                                                           *)
(***************************************************************************)
\* the pairs of the successful attempt are dropped
ChunkOkDroppingPairs(chunk, qa_pairs) == [chunk_text |-> chunk, qa_pairs |-> <<>>]

\* line 98: the generator returned qa_pairs
ChunkOk(chunk, qa_pairs) ==
    [chunk_text |-> chunk, qa_pairs |-> IF qa_pairs # <<>> THEN qa_pairs ELSE <<>>]

\* the failure is swallowed: no error field
ChunkErrorSwallowed(chunk, msg) == [chunk_text |-> chunk, qa_pairs |-> <<>>]

\* line 101: the generator raised e
ChunkError(chunk, msg) ==
    [chunk_text |-> chunk, qa_pairs |-> <<>>, error |-> msg]

(***************************************************************************)
(* The checkpoint file                                                     *)
(***************************************************************************)
NoFile == [exists |-> FALSE, text |-> <<>>]

HeadToken(r) == [kind |-> "head", source_filepath |-> r.source_filepath,
                 markdown_text |-> r.markdown_text]
ChunkToken(cr) == [kind |-> "chunk", val |-> cr]
TailToken == [kind |-> "tail"]

\* the checkpoint is written without the result just appended
json_dump_stale(r) ==
    <<HeadToken(r)>> \o [k \in 1..(Len(r.chunks) - 1) |-> ChunkToken(r.chunks[k])]
                     \o <<TailToken>>

\* json.dump(result, f, indent=2): the text written, in the order written
json_dump(r) ==
    <<HeadToken(r)>> \o [k \in 1..Len(r.chunks) |-> ChunkToken(r.chunks[k])]
                     \o <<TailToken>>

\* json.load(f) succeeds only on a whole document
CanLoad(text) ==
    /\ Len(text) >= 2
    /\ text[1].kind = "head"
    /\ text[Len(text)].kind = "tail"

json_load(text) ==
    [source_filepath |-> text[1].source_filepath,
     markdown_text |-> text[1].markdown_text,
     chunks |-> [k \in 1..(Len(text) - 2) |-> text[k + 1].val]]

\* the loop goes on before the last piece of the document is written
DumpDoneEarly(written, full) == written >= Len(full) - 1

\* lines 151-152: the with-block is left once every piece is written
DumpDone(written, full) == written = Len(full)

\* lines 136-140
FreshResult(path, text) ==
    [source_filepath |-> path, markdown_text |-> text, chunks |-> <<>>]

\* no process: nothing in memory
NoResult == [source_filepath |-> "", markdown_text |-> <<>>, chunks |-> <<>>]

\* the overwrite flag is not looked at
UseExistingAlways(exists, ow) == exists

\* line 127: output_file.exists() and not overwrite
UseExisting(exists, ow) == exists /\ ~ow

\* a failure to load the checkpoint gets out of process_file
RaisesOnLoadFailure(how) == how = "load_failed"

\* lines 113, 159-160: whatever the body raises is caught and logged, and
\* process_file returns
Raises(how) == FALSE

\* a comparison that takes only a longer checkpoint for a finished one
AlreadyProcessedIfLonger(r, cs) == Len(r.chunks) > Len(cs)

\* line 130
AlreadyProcessed(r, cs) == Len(r.chunks) = Len(cs)

\* a resumption that starts over at chunk 0 and keeps the loaded results
ResumeIndexFromZero(r) == 0

\* a resumption that goes back to the first chunk whose result has an error
ResumeIndexRetryingErrors(r) ==
    IF \E k \in 1..Len(r.chunks) : "error" \in DOMAIN r.chunks[k]
    THEN (CHOOSE k \in 1..Len(r.chunks) :
             /\ "error" \in DOMAIN r.chunks[k]
             /\ \A m \in 1..(k - 1) : "error" \notin DOMAIN r.chunks[m]) - 1
    ELSE Len(r.chunks)

\* line 146: the first index of chunks[len(result["chunks"]):]
ResumeIndex(r) == Len(r.chunks)

\* an assignment in place of the append
AppendResultReplacing(r, cr) == [r EXCEPT !.chunks = <<cr>>]

\* line 148
AppendResult(r, cr) == [r EXCEPT !.chunks = Append(r.chunks, cr)]

(***************************************************************************)
(* Initial state                                                           *)
(***************************************************************************)
Idle ==
    /\ pc' = "idle"
    /\ result' = NoResult
    /\ chunks' = <<>>
    /\ start' = 0
    /\ i' = 0
    /\ attempt' = 0
    /\ temperature' = 0
    /\ calls_made' = 0
    /\ generated' = <<>>
    /\ response' = NoResponse

\* where a run was when it ended: "between" is after one chunk's persist (or
\* the load) and before the first model call for the next chunk
Position ==
    IF pc = "loop" \/ (pc = "call" /\ attempt = 0) THEN "between"
    ELSE IF pc = "call" THEN "generating"
    ELSE pc

NoLast == [how |-> "none", at |-> "idle", after_done |-> FALSE]

\* the endings of a run that the next run still remembers while it runs: it
\* reached the end of the loop, or it was killed between two chunks
FollowedIntoNextRun(l) ==
    l.how = "done" \/ (l.how = "crashed" /\ l.at = "between")

InitRun ==
    /\ disk = NoFile
    /\ pc = "idle"
    /\ last = NoLast
    /\ overwrite = FALSE
    /\ result = NoResult
    /\ chunks = <<>>
    /\ start = 0
    /\ i = 0
    /\ attempt = 0
    /\ temperature = 0
    /\ calls_made = 0
    /\ generated = <<>>
    /\ response = NoResponse
    /\ seen = 0
    /\ poisoned = -1

\* make_csv and convert are not in use
NoInput == [kind |-> "none", ext |-> ""]
NotCalled == [kind |-> "not called"]

InitCsvIdle ==
    /\ data = NoResult
    /\ csv_pc = "end"
    /\ chunk_number = 0
    /\ qa_number = 0
    /\ rows = <<>>

InitConvertIdle ==
    /\ input_data = NoInput
    /\ file_type = "None"
    /\ returned = NotCalled

\* one document, run by run: main is given that one path
InitOneDocument ==
    /\ inputs = <<SourcePath>>
    /\ args_overwrite = FALSE
    /\ cursor = 1
    /\ output_file = OutputFile(SourcePath)
    /\ output_dir = [f \in OutputFiles |-> NoFile]
    /\ outcomes = <<>>
    /\ InitCsvIdle
    /\ InitConvertIdle

Init ==
    /\ n_chunks \in 0..MaxChunks
    /\ max_retries = DefaultMaxRetries
    /\ base_temperature = DefaultTemperature
    /\ InitRun
    /\ InitOneDocument

(***************************************************************************)
(* process_file                                                            *)
(***************************************************************************)
\* a resumption that drops the loaded results beyond the new chunk count
EnterLoopTruncating(r, cs) ==
    LET kept == IF Len(r.chunks) > Len(cs) THEN SubSeq(r.chunks, 1, Len(cs))
                ELSE r.chunks
    IN  /\ result' = [r EXCEPT !.chunks = kept]
        /\ chunks' = cs
        /\ start' = Len(kept)
        /\ i' = Len(kept)
        /\ pc' = "loop"
        /\ attempt' = 0
        /\ temperature' = 0
        /\ calls_made' = 0
        /\ generated' = <<>>
        /\ response' = NoResponse
        /\ last' = IF FollowedIntoNextRun(last) THEN last ELSE NoLast

EnterLoop(r, cs) ==
    /\ result' = r
    /\ chunks' = cs
    /\ start' = ResumeIndex(r)
    /\ i' = ResumeIndex(r)
    /\ pc' = "loop"
    /\ attempt' = 0
    /\ temperature' = 0
    /\ calls_made' = 0
    /\ generated' = <<>>
    /\ response' = NoResponse
    /\ last' = IF FollowedIntoNextRun(last) THEN last ELSE NoLast

\* how a run ended and where; after_done: a skipping run came right after a
\* run that reached the end of the loop
Finish(how) ==
    /\ last' = [how |-> how, at |-> Position,
                after_done |-> (how = "skipped" /\ last.how = "done")]
    /\ Idle

\* lines 113-140: convert, chunk, load or initialise the checkpoint; file is
\* what is at output_file, converted tells whether convert gave a text
Begin(path, converted, n, ow, file) ==
    /\ overwrite' = ow
    /\ IF ~converted
       THEN Finish("convert_failed")
       ELSE LET cs == chunker(Text(path), n) IN
            IF UseExisting(file.exists, ow)
            THEN IF ~CanLoad(file.text)
                 THEN Finish("load_failed")
                 ELSE LET r == json_load(file.text) IN
                      IF AlreadyProcessed(r, cs)
                      THEN Finish("skipped")
                      ELSE EnterLoop(r, cs)
            ELSE EnterLoop(FreshResult(path, Text(path)), cs)

\* process_file is run on the document, with or without overwrite
StartRun ==
    /\ pc = "idle"
    /\ \E ow \in BOOLEAN, converted \in BOOLEAN :
          Begin(SourcePath, converted, n_chunks, ow, disk)
    /\ UNCHANGED <<n_chunks, max_retries, base_temperature, disk, seen, poisoned>>
    /\ UNCHANGED <<main_vars, tool_vars>>

\* line 146: the next chunk, or the end of the loop (lines 156-157)
NextChunk ==
    /\ pc = "loop"
    /\ IF i < Len(chunks)
       THEN /\ pc' = "call"
            /\ attempt' = 0
            /\ temperature' = base_temperature
            /\ response' = NoResponse
            /\ UNCHANGED <<last, result, chunks, start, i, calls_made, generated>>
       ELSE Finish("done")
    /\ UNCHANGED <<n_chunks, max_retries, base_temperature, disk, overwrite, seen, poisoned>>
    /\ UNCHANGED <<main_vars, tool_vars>>

\* lines 63-85, 96-101, 147-148: one attempt of generate_qa_pairs; when it
\* settles the chunk, process_chunk's result is appended to result["chunks"]
Attempt ==
    /\ pc = "call"
    /\ attempt < max_retries
    /\ \E resp \in ModelResponses :
        LET got == TryAttempt(resp)
            chunk == chunks[i + 1]
        IN  /\ response' = resp
            /\ IF got.ok
               THEN /\ result' = AppendResult(result, ChunkOk(chunk, got.output))
                    /\ generated' = Append(generated, got)
                    /\ pc' = "open"
                    /\ UNCHANGED <<attempt, temperature>>
               ELSE IF IsLastAttempt(attempt, max_retries)
               THEN /\ result' = AppendResult(result, ChunkError(chunk, got.msg))
                    /\ generated' = Append(generated, got)
                    /\ pc' = "open"
                    /\ UNCHANGED <<attempt, temperature>>
               ELSE /\ attempt' = attempt + 1
                    /\ temperature' = NextTemperature(temperature)
                    /\ UNCHANGED <<result, generated, pc>>
    /\ calls_made' = calls_made + 1
    /\ UNCHANGED <<n_chunks, max_retries, base_temperature, disk, last, overwrite,
                   chunks, start, i, seen, poisoned>>
    /\ UNCHANGED <<main_vars, tool_vars>>

\* line 151: open(output_file, "w") creates or truncates the file
OpenFile ==
    /\ pc = "open"
    /\ disk' = [exists |-> TRUE, text |-> <<>>]
    /\ pc' = "dump"
    /\ UNCHANGED <<n_chunks, max_retries, base_temperature, last, overwrite, result,
                   chunks, start, i, attempt, temperature, calls_made, generated,
                   response, seen, poisoned>>
    /\ UNCHANGED <<main_vars, tool_vars>>

\* line 151 raises (the file cannot be opened): lines 159-160
OpenFails ==
    /\ pc = "open"
    /\ Finish("persist_failed")
    /\ UNCHANGED <<n_chunks, max_retries, base_temperature, disk, overwrite, seen, poisoned>>
    /\ UNCHANGED <<main_vars, tool_vars>>

\* line 152: json.dump writes the document piece by piece; the with-block
\* closes the file after the last piece and the loop goes on (line 154)
WriteStep ==
    /\ pc = "dump"
    /\ LET full == json_dump(result)
           k == Len(disk.text)
       IN  /\ k < Len(full)
           /\ disk' = [disk EXCEPT !.text = Append(disk.text, full[k + 1])]
           /\ IF DumpDone(k + 1, full)
              THEN /\ pc' = "loop"
                   /\ i' = i + 1
                   /\ seen' = Len(result.chunks)
                   /\ poisoned' =
                        IF poisoned = -1
                           /\ "error" \in DOMAIN result.chunks[Len(result.chunks)]
                        THEN Len(result.chunks) - 1
                        ELSE poisoned
              ELSE UNCHANGED <<pc, i, seen, poisoned>>
    /\ UNCHANGED <<n_chunks, max_retries, base_temperature, last, overwrite, result,
                   chunks, start, attempt, temperature, calls_made, generated,
                   response>>
    /\ UNCHANGED <<main_vars, tool_vars>>

\* line 152 raises part-way (an I/O error): lines 159-160
WriteFails ==
    /\ pc = "dump"
    /\ Finish("persist_failed")
    /\ UNCHANGED <<n_chunks, max_retries, base_temperature, disk, overwrite, seen, poisoned>>
    /\ UNCHANGED <<main_vars, tool_vars>>

\* the process is killed: the file stays as it is, memory is gone
Crash ==
    /\ pc # "idle"
    /\ Finish("crashed")
    /\ UNCHANGED <<n_chunks, max_retries, base_temperature, disk, overwrite, seen, poisoned>>
    /\ UNCHANGED <<main_vars, tool_vars>>

Next ==
    \/ StartRun
    \/ NextChunk
    \/ Attempt
    \/ OpenFile
    \/ OpenFails
    \/ WriteStep
    \/ WriteFails
    \/ Crash

Spec == Init /\ [][Next]_vars

\* generate_qa_pairs under any max_retries >= 1 and any initial temperature
InitGen ==
    /\ n_chunks \in 0..GenChunks
    /\ max_retries \in 1..MaxRetriesBound
    /\ base_temperature \in 0..MaxBaseTemperature
    /\ InitRun
    /\ InitOneDocument

SpecGen == InitGen /\ [][Next]_vars

(***************************************************************************)
(* Runs under a changing chunk_size                                        *)
(***************************************************************************)
\* a document with text: at least one chunk under any chunk_size
InitRechunk ==
    /\ n_chunks \in 1..MaxRechunk
    /\ max_retries = DefaultMaxRetries
    /\ base_temperature = DefaultTemperature
    /\ InitRun
    /\ InitOneDocument

\* the next run is given another --chunk_size: the chunker divides the same
\* text into another number of chunks
Rechunk ==
    /\ pc = "idle"
    /\ \E n \in 1..MaxRechunk : n # n_chunks /\ n_chunks' = n
    /\ UNCHANGED <<max_retries, base_temperature, disk, pc, last, overwrite, result,
                   chunks, start, i, attempt, temperature, calls_made, generated,
                   response, seen, poisoned>>
    /\ UNCHANGED <<main_vars, tool_vars>>

NextRechunk ==
    \/ Rechunk
    \/ StartRun
    \/ NextChunk
    \/ Attempt
    \/ OpenFile
    \/ OpenFails
    \/ WriteStep
    \/ WriteFails
    \/ Crash

SpecRechunk == InitRechunk /\ [][NextRechunk]_vars

(***************************************************************************)
(* main: one invocation over a list of input paths                         *)
(***************************************************************************)
\* nargs="+": one path or more, in any order, the same path again included
Batches == UNION {[1..k -> Documents] : k \in 1..MaxBatch}

\* before the first process_file call there is no output_file
NoOutputFile == <<>>

InitBatch ==
    /\ inputs \in Batches
    /\ args_overwrite \in BOOLEAN
    /\ cursor = 0
    /\ output_file = NoOutputFile
    /\ output_dir = [f \in OutputFiles |-> NoFile]
    /\ outcomes = <<>>
    /\ n_chunks = 0
    /\ max_retries = DefaultMaxRetries
    /\ base_temperature = DefaultTemperature
    /\ InitRun
    /\ InitCsvIdle
    /\ InitConvertIdle

\* the files of output_dir as they are now
Directory ==
    IF cursor = 0 THEN output_dir ELSE [output_dir EXCEPT ![output_file] = disk]

\* lines 199-209: the loop of main hands the next path to process_file,
\* which converts, chunks and loads or initialises the checkpoint (113-140)
ProcessNextFile ==
    /\ pc = "idle"
    /\ cursor < Len(inputs)
    /\ cursor = 0 \/ ~Raises(last.how)
    /\ LET path == inputs[cursor + 1]
           file == Directory[OutputFile(path)]
       IN  /\ cursor' = cursor + 1
           /\ output_file' = OutputFile(path)
           /\ output_dir' = Directory
           /\ disk' = file
           /\ n_chunks' = ChunkCount(path)
           /\ outcomes' = IF cursor = 0 THEN <<>> ELSE Append(outcomes, last.how)
           /\ \E converted \in BOOLEAN :
                 Begin(path, converted, ChunkCount(path), args_overwrite, file)
    /\ seen' = 0
    /\ poisoned' = -1
    /\ UNCHANGED <<inputs, args_overwrite, max_retries, base_temperature>>
    /\ UNCHANGED tool_vars

NextBatch ==
    \/ ProcessNextFile
    \/ NextChunk
    \/ Attempt
    \/ OpenFile
    \/ OpenFails
    \/ WriteStep
    \/ WriteFails

SpecBatch == InitBatch /\ [][NextBatch]_vars

(***************************************************************************)
(* make_csv.py: process_qa_file                                            *)
(***************************************************************************)
extract_vars == <<n_chunks, max_retries, base_temperature, disk, pc, last, overwrite,
                  result, chunks, start, i, attempt, temperature, calls_made,
                  generated, response, seen, poisoned, main_vars>>

TwoQuotePair == [question |-> "Q1", answer |-> "A1", supporting_quotes |-> <<"S1", "S1">>]

\* the qa_pairs lists of the checkpoints given to process_qa_file
CsvArrays == JsonArrays \cup {<<GoodPair, TwoQuotePair>>}

\* the results process_chunk can have put into a checkpoint
CsvResults ==
    {ChunkOk("chunk", a) : a \in {v \in CsvArrays : qa_schema(v)}}
    \cup {ChunkError("chunk", "model error")}

\* lines 9-10: json.load of a checkpoint file as process_file's json.dump wrote it
CsvCheckpoints ==
    {json_load(json_dump([source_filepath |-> SourcePath,
                          markdown_text |-> MarkdownText,
                          chunks |-> cs])) :
        cs \in UNION {[1..k -> CsvResults] : k \in 0..MaxCsvChunks}}

\* make_csv.py lines 12, 13: enumerate(..., start=1)
EnumerateStart == 1

\* line 20: ' | '.join(qa_pair['supporting_quotes']), as the pieces of the string
RECURSIVE Join(_)
Join(quotes) ==
    IF Len(quotes) = 0 THEN <<>>
    ELSE IF Len(quotes) = 1 THEN <<quotes[1]>>
    ELSE <<quotes[1], " | ">> \o Join(Tail(quotes))

\* a numbering that counts only the chunks that have pairs
RowCountingFilledChunks(d, cn, qn) ==
    LET qa_pair == d.chunks[cn].qa_pairs[qn]
    IN  [file_path |-> d.source_filepath,
         chunk_number |-> Cardinality({c \in 1..cn : Len(d.chunks[c].qa_pairs) > 0}),
         qa_number |-> qn + EnumerateStart - 1,
         question |-> qa_pair.question,
         answer |-> qa_pair.answer,
         supporting_quotes |-> Join(qa_pair.supporting_quotes)]

\* lines 14-21: the row of pair qn (position from 1) of chunk cn (position from 1)
Row(d, cn, qn) ==
    LET qa_pair == d.chunks[cn].qa_pairs[qn]
    IN  [file_path |-> d.source_filepath,
         chunk_number |-> cn + EnumerateStart - 1,
         qa_number |-> qn + EnumerateStart - 1,
         question |-> qa_pair.question,
         answer |-> qa_pair.answer,
         supporting_quotes |-> Join(qa_pair.supporting_quotes)]

InitCsv ==
    /\ data \in CsvCheckpoints
    /\ csv_pc = "chunks"
    /\ chunk_number = 0
    /\ qa_number = 0
    /\ rows = <<>>
    /\ n_chunks = 0
    /\ max_retries = DefaultMaxRetries
    /\ base_temperature = DefaultTemperature
    /\ InitRun
    /\ inputs = <<SourcePath>>
    /\ args_overwrite = FALSE
    /\ cursor = 1
    /\ output_file = OutputFile(SourcePath)
    /\ output_dir = [f \in OutputFiles |-> NoFile]
    /\ outcomes = <<>>
    /\ InitConvertIdle

\* line 12: the outer loop takes the next chunk, or the generator ends
CsvNextChunk ==
    /\ csv_pc = "chunks"
    /\ IF chunk_number < Len(data.chunks)
       THEN /\ chunk_number' = chunk_number + 1
            /\ qa_number' = 0
            /\ csv_pc' = "pairs"
       ELSE /\ csv_pc' = "end"
            /\ UNCHANGED <<chunk_number, qa_number>>
    /\ UNCHANGED <<data, rows, input_data, file_type, returned>>
    /\ UNCHANGED extract_vars

\* lines 13-21: the inner loop yields the row of the next pair, or ends
CsvYield ==
    /\ csv_pc = "pairs"
    /\ IF qa_number < Len(data.chunks[chunk_number].qa_pairs)
       THEN /\ qa_number' = qa_number + 1
            /\ rows' = Append(rows, Row(data, chunk_number, qa_number + 1))
            /\ UNCHANGED csv_pc
       ELSE /\ csv_pc' = "chunks"
            /\ UNCHANGED <<qa_number, rows>>
    /\ UNCHANGED <<data, chunk_number, input_data, file_type, returned>>
    /\ UNCHANGED extract_vars

NextCsv ==
    \/ CsvNextChunk
    \/ CsvYield

SpecCsv == InitCsv /\ [][NextCsv]_vars

(***************************************************************************)
(* convert.py: DocToMarkdown.convert                                       *)
(***************************************************************************)
\* lines 31-35: supported_formats
supported_formats ==
    [e \in {".docx", ".html", ".pdf"} |->
        CASE e = ".docx" -> "_convert_docx"
          [] e = ".html" -> "_convert_html"
          [] e = ".pdf" -> "_convert_pdf"]

\* extensions of the paths given, as os.path.splitext yields them
Extensions == {".docx", ".DOCX", ".html", ".Html", ".pdf", ".PDF", ".txt", ".md", ""}

\* str.lower
Lower(e) ==
    CASE e = ".DOCX" -> ".docx"
      [] e = ".Html" -> ".html"
      [] e = ".PDF" -> ".pdf"
      [] OTHER -> e

\* file_type as a caller can give it; "None" stands for None
FileTypes == {"None", ".docx", ".html", ".pdf", ".PDF", ".txt", "pdf", ""}

\* input_data: the path of an existing file, a string that is no such path,
\* or bytes
ConvertInputs ==
    {[kind |-> "file path", ext |-> e] : e \in Extensions}
    \cup {[kind |-> "string", ext |-> ""], [kind |-> "bytes", ext |-> ""]}

Converted(by) == [kind |-> "converted", by |-> by]
Raised(error) == [kind |-> "raised", error |-> error]

\* lines 52-62; line 54 indexes the dict with the extension of the file
convert(inp, ft) ==
    IF inp.kind = "file path"
    THEN IF Lower(inp.ext) \in DOMAIN supported_formats
         THEN Converted(supported_formats[Lower(inp.ext)])
         ELSE Raised("KeyError")
    ELSE IF ft = "None" THEN Raised("ValueError")
    ELSE IF ft \notin DOMAIN supported_formats THEN Raised("ValueError")
    ELSE Converted(supported_formats[ft])

InitConvert ==
    /\ input_data \in ConvertInputs
    /\ file_type \in FileTypes
    /\ returned = NotCalled
    /\ n_chunks = 0
    /\ max_retries = DefaultMaxRetries
    /\ base_temperature = DefaultTemperature
    /\ InitRun
    /\ inputs = <<SourcePath>>
    /\ args_overwrite = FALSE
    /\ cursor = 1
    /\ output_file = OutputFile(SourcePath)
    /\ output_dir = [f \in OutputFiles |-> NoFile]
    /\ outcomes = <<>>
    /\ InitCsvIdle

\* one call of convert
Convert ==
    /\ returned = NotCalled
    /\ returned' = convert(input_data, file_type)
    /\ UNCHANGED <<data, csv_pc, chunk_number, qa_number, rows, input_data, file_type>>
    /\ UNCHANGED extract_vars

NextConvert == Convert

SpecConvert == InitConvert /\ [][NextConvert]_vars

(***************************************************************************)
(* Notions the properties use                                              *)
(***************************************************************************)
\* the document's chunk sequence c[0..n-1]
DocChunks == chunker(MarkdownText, n_chunks)

Running == pc # "idle"

\* the file is a whole checkpoint
Loadable == disk.exists /\ CanLoad(disk.text)

\* the results of the checkpoint on disk (of a loadable file)
Persisted == json_load(disk.text).chunks

\* the results written to the file so far, whole or not
OnDisk == [k \in 1..Cardinality({t \in 1..Len(disk.text) : disk.text[t].kind = "chunk"})
              |-> disk.text[k + 1].val]

IsPrefix(s, t) == Len(s) <= Len(t) /\ \A k \in 1..Len(s) : s[k] = t[k]

\* results 0..k-1 of the document's chunks, in chunk order
InChunkOrder(crs) ==
    /\ Len(crs) <= n_chunks
    /\ \A j \in 1..Len(crs) : crs[j].chunk_text = DocChunks[j]

HasError(cr) == "error" \in DOMAIN cr

(***************************************************************************)
(* C1: at every point of every run the chunks list of the checkpoint, in   *)
(* memory and on disk, holds results for chunks 0..k-1 in chunk order,     *)
(* with 0 <= k <= n: no result out of order, no index skipped.             *)
(***************************************************************************)
C1_ChunkOrder ==
    /\ InChunkOrder(result.chunks)
    /\ disk.exists => InChunkOrder(OnDisk)
    /\ Loadable => InChunkOrder(Persisted)

\* a run resumed after a crash has brought a document of three chunks to its end
C1_Witness ==
    /\ pc = "loop"
    /\ last.how = "crashed"
    /\ ~overwrite
    /\ start = 1
    /\ Len(result.chunks) = 3
    /\ Loadable /\ Len(Persisted) = 3

(***************************************************************************)
(* C2: a process killed after the write holding chunk k's result is        *)
(* complete and before the generation of chunk k+1 starts leaves a file    *)
(* with exactly k+1 results; the next run without overwrite loads them,    *)
(* makes its first model call for chunk k+1 and never regenerates or       *)
(* alters results 0..k.  Between two persisted chunks the memory is at     *)
(* most one result ahead of the file.                                      *)
(***************************************************************************)
\* the first results of s, as far as t goes, are those of t
AgreeUpTo(s, t, m) == \A k \in 1..m : k <= Len(s) => (k <= Len(t) /\ s[k] = t[k])

C2_Between ==
    /\ (Running /\ Position = "between" /\ i > start) =>
            (Loadable /\ Persisted = result.chunks /\ Len(Persisted) = i)
    /\ (Running /\ Loadable /\ (i > start \/ ~overwrite)) =>
            (IsPrefix(Persisted, result.chunks)
             /\ Len(result.chunks) <= Len(Persisted) + 1)

C2_Resume ==
    /\ (pc = "idle" /\ last.how = "crashed" /\ last.at = "between" /\ Loadable
            /\ ~overwrite' /\ last'.how # "convert_failed") =>
         IF Len(Persisted) = n_chunks
         THEN pc' = "idle" /\ last'.how = "skipped"
         ELSE /\ pc' = "loop"
              /\ result'.chunks = Persisted
              /\ start' = Len(Persisted)
              /\ i' = Len(Persisted)
    /\ (Running /\ calls_made' = calls_made + 1 /\ calls_made = 0) =>
         (i = start /\ Len(result.chunks) = start)
    /\ (Running /\ pc' # "idle") =>
         (start' = start /\ SubSeq(result'.chunks, 1, start) = SubSeq(result.chunks, 1, start))
    /\ (Running /\ ~overwrite) => AgreeUpTo(OnDisk', result.chunks, start)

C2_CrashSafety == [](C2_Between) /\ [][C2_Resume]_vars

\* killed after persisting chunk 1 of three; the next run, without overwrite,
\* has loaded two results and made its first model call, for chunk 2
C2_Witness ==
    /\ last.how = "crashed" /\ last.at = "between"
    /\ ~overwrite
    /\ pc = "call"
    /\ start = 2 /\ i = 2 /\ n_chunks = 3
    /\ calls_made = 1
    /\ Loadable /\ Persisted = result.chunks

(***************************************************************************)
(* C3: the persist step is atomic with respect to crashes: a process       *)
(* killed at any point of the rewrite for chunk i leaves a whole, loadable *)
(* checkpoint holding exactly results 0..i-1 or exactly results 0..i.      *)
(***************************************************************************)
C3_AtomicPersist ==
    /\ pc = "dump" =>
          /\ Loadable
          /\ \/ Persisted = result.chunks
             \/ Persisted = SubSeq(result.chunks, 1, Len(result.chunks) - 1)
    /\ (pc = "idle" /\ last.how = "crashed" /\ last.at = "dump") => Loadable

(***************************************************************************)
(* C4: a run without overwrite after a run that completed leaves the       *)
(* checkpoint file as it was, makes no model call and writes nothing.      *)
(*   C4_SecondRunSkips, the claim as stated: it does so by the skip path   *)
(*   (the loaded result count equals the chunk count).                     *)
(*   C4_SecondRunIdempotent, as amended: by the skip path when the         *)
(*   document has at least one chunk; a document of zero chunks has no     *)
(*   checkpoint file, and the second run starts a fresh checkpoint and     *)
(*   ends at once, with no model call and no write.                        *)
(***************************************************************************)
SecondRunStarts ==
    /\ pc = "idle"
    /\ last.how = "done"
    /\ ~overwrite'
    /\ last'.how # "convert_failed"

C4_SecondRunSkips ==
    [][SecondRunStarts =>
          /\ pc' = "idle" /\ last'.how = "skipped"
          /\ disk' = disk
          /\ calls_made' = 0]_vars

C4_SecondRunIdempotent ==
    /\ [][SecondRunStarts =>
             /\ disk' = disk
             /\ calls_made' = 0
             /\ IF n_chunks >= 1
                THEN /\ pc' = "idle" /\ last'.how = "skipped"
                     /\ Loadable /\ Len(Persisted) = n_chunks
                ELSE /\ pc' = "loop"
                     /\ ~disk.exists
                     /\ result'.chunks = <<>>]_vars
    /\ [][(Running /\ ~overwrite /\ last.how = "done") =>
             /\ disk' = disk
             /\ calls_made' = 0
             /\ pc' = "idle"]_vars

\* a document of three chunks was completed, and the run after it skipped
C4_Witness ==
    /\ pc = "idle"
    /\ last.how = "skipped" /\ last.after_done
    /\ ~overwrite
    /\ n_chunks = 3
    /\ Loadable /\ Len(Persisted) = 3

(***************************************************************************)
(* C5: process_chunk never raises.  A chunk whose generation failed on     *)
(* every attempt gets a result with an empty qa_pairs list and a non-empty *)
(* error field, every other chunk gets exactly the pairs the model         *)
(* returned and no error field, and the run still ends with n results in   *)
(* the checkpoint.                                                         *)
(***************************************************************************)
\* the model call succeeded: a message came back and its content parsed
Succeeded(resp) == ~resp.raised /\ resp.closed

\* a step that calls the model
ModelCall == calls_made' = calls_made + 1

\* result cr is what the claim asks for a generation that ended as g
AsGenerated(cr, g) ==
    IF g.ok
    THEN cr.qa_pairs = g.output /\ ~HasError(cr)
    ELSE cr.qa_pairs = <<>> /\ HasError(cr) /\ cr.error # ""

C5_Results ==
    /\ Running => Len(generated) = Len(result.chunks) - start
    /\ \A j \in 1..Len(generated) : AsGenerated(result.chunks[start + j], generated[j])
    /\ (Running /\ Loadable /\ i > start) =>
          \A j \in (start + 1)..Len(Persisted) :
              AsGenerated(Persisted[j], generated[j - start])
    /\ (pc = "loop" /\ i = Len(chunks) /\ i > start) =>
          (Loadable /\ Len(Persisted) = n_chunks)
    /\ (pc = "idle" /\ last.how = "done" /\ n_chunks >= 1) =>
          (Loadable /\ Len(Persisted) = n_chunks)

C5_Step ==
    ModelCall =>
        /\ pc' \in {"call", "open"}
        /\ last' = last
        /\ (pc' = "open" /\ ~Succeeded(response')) =>
              /\ attempt = max_retries - 1
              /\ Len(generated') = Len(generated) + 1
              /\ ~generated'[Len(generated')].ok
        /\ (pc' = "open" /\ Succeeded(response')) =>
              generated' = Append(generated, [ok |-> TRUE, output |-> response'.value,
                                              msg |-> ""])

Settled == pc \in {"open", "dump"}

C6_Attempts ==
    /\ pc = "call" => attempt < max_retries
    /\ Settled =>
          /\ attempt < max_retries
          /\ Succeeded(response) \/ attempt = max_retries - 1
          /\ generated[Len(generated)].ok = Succeeded(response)
          /\ Succeeded(response) => generated[Len(generated)].output = response.value

C6_Step ==
    /\ ModelCall =>
          /\ pc = "call" /\ attempt < max_retries
          /\ Succeeded(response') =>
                (pc' = "open" /\ attempt' = attempt)
          /\ (~Succeeded(response') /\ attempt < max_retries - 1) =>
                (pc' = "call" /\ attempt' = attempt + 1 /\ generated' = generated)
          /\ (~Succeeded(response') /\ attempt = max_retries - 1) =>
                (pc' = "open" /\ attempt' = attempt /\ ~generated'[Len(generated')].ok)
    /\ (Settled /\ Running') => (calls_made' = calls_made /\ attempt' \in {attempt, 0})

C6_BoundedRetries == [](C6_Attempts) /\ [][C6_Step]_vars

\* with max_retries = 4: the fourth attempt succeeded after three failures
C6_Witness ==
    /\ max_retries = 4
    /\ pc = "open"
    /\ attempt = 3
    /\ calls_made = 4
    /\ Succeeded(response)

(***************************************************************************)
(* C7: a response that is parseable JSON but violates the QA shape is      *)
(* rejected, so every ChunkResult persisted without an error field has     *)
(* only pairs with a non-empty question, a non-empty answer and a list of  *)
(* quotation strings.                                                      *)
(***************************************************************************)
ValidPair(p) ==
    /\ DOMAIN p = {"question", "answer", "supporting_quotes"}
    /\ p.question \in Strings \ {""}
    /\ p.answer \in Strings \ {""}
    /\ \A q \in 1..Len(p.supporting_quotes) : p.supporting_quotes[q] \in Strings

C7_SchemaValidity ==
    \A k \in 1..Len(OnDisk) :
        ~HasError(OnDisk[k]) =>
            \A p \in 1..Len(OnDisk[k].qa_pairs) : ValidPair(OnDisk[k].qa_pairs[p])

(***************************************************************************)
(* C8: each successful chunk step (process_chunk, then a completed         *)
(* persist) raises the processed-chunk count of the checkpoint by exactly  *)
(* 1, and the count of the persisted checkpoint never decreases from one   *)
(* observation to the next.  An observation is a load of the file; seen is *)
(* the count of the previous one.                                          *)
(*   C8_CountNeverDecreases, the claim as stated: across any sequence of   *)
(*   runs.                                                                 *)
(*   C8_CountMonotoneWithoutOverwrite, as amended: in runs without         *)
(*   overwrite; a run with overwrite starts the count again from zero.     *)
(***************************************************************************)
\* process_chunk's result is appended: the count in memory goes up by one
ChunkStepCounts ==
    /\ (ModelCall /\ pc' = "open") =>
          /\ Len(result'.chunks) = Len(result.chunks) + 1
          /\ Len(result'.chunks) = i + 1
    /\ (Running /\ pc' # "idle" /\ ~(ModelCall /\ pc' = "open")) =>
          Len(result'.chunks) = Len(result.chunks)

\* the persist of that result has completed
PersistCompletes == pc = "dump" /\ pc' = "loop"

C8_CountNeverDecreases ==
    [][/\ ChunkStepCounts
       /\ PersistCompletes => (Loadable' /\ Len(Persisted') = Len(result.chunks) /\ i' = i + 1)
       /\ Loadable' => Len(Persisted') >= seen]_vars

C8_CountMonotoneWithoutOverwrite ==
    [][/\ ChunkStepCounts
       /\ PersistCompletes => (Loadable' /\ Len(Persisted') = Len(result.chunks) /\ i' = i + 1)
       /\ (PersistCompletes /\ (~overwrite \/ i > start)) => Len(Persisted') = seen + 1
       /\ (PersistCompletes /\ overwrite /\ i = start) => Len(Persisted') = 1
       /\ (Loadable' /\ ~overwrite') => Len(Persisted') >= seen]_vars

\* a run resumed without overwrite from one result has persisted the third
C8_Witness ==
    /\ pc = "loop" /\ ~overwrite
    /\ start = 1 /\ i = 3
    /\ Loadable /\ Len(Persisted) = 3 /\ seen = 3

(***************************************************************************)
(* C9: chunks are generated strictly in ascending index order, the first   *)
(* model call for chunk i+1 comes only after the checkpoint write with     *)
(* chunk i's result has completed, and no two chunks are in generation at  *)
(* the same time.                                                          *)
(***************************************************************************)
\* a model call for chunk i finds the results of all chunks before it, and
\* nothing else, in the file
C9_PersistedBeforeNext ==
    pc = "call" =>
        /\ Len(result.chunks) = i
        /\ i < Len(chunks)
        /\ (i > start \/ (~overwrite /\ i > 0)) =>
              (Loadable /\ Persisted = result.chunks)

C9_Step ==
    /\ ModelCall => (pc = "call" /\ i' = i /\ chunks' = chunks)
    /\ (Running /\ pc' # "idle") =>
          \/ i' = i
          \/ i' = i + 1 /\ pc = "dump" /\ pc' = "loop" /\ Loadable'
                        /\ Persisted' = result.chunks

C9_SequentialChunks == [](C9_PersistedBeforeNext) /\ [][C9_Step]_vars

\* the model is being called for chunk 2 after chunks 0 and 1 were generated
\* and persisted by the same run
C9_Witness ==
    /\ pc = "call" /\ attempt = 1
    /\ start = 0 /\ i = 2
    /\ Len(generated) = 2
    /\ Loadable /\ Len(Persisted) = 2

(***************************************************************************)
(* C10: a chunk whose generation fails on every attempt still advances the *)
(* resumption offset: the run goes on to the next chunk, and a run over n  *)
(* chunks that starts from k persisted results ends after at most          *)
(* (n - k) * max_retries model calls.                                      *)
(*   C10_NeverCalledAgain, the claim as stated: once the failed result is  *)
(*   persisted, no run without overwrite ever calls the model for that     *)
(*   chunk again.                                                          *)
(*   C10_PoisonedChunkAdvances, as amended: no run without overwrite calls *)
(*   the model for a chunk that has a result in the checkpoint as last     *)
(*   persisted; a run with overwrite starts the checkpoint afresh, and a   *)
(*   run without overwrite that resumes it calls the model again for the   *)
(*   chunks it has not reached.                                            *)
(***************************************************************************)
\* steps one chunk takes at most: the loop head, max_retries attempts, the
\* open and the pieces of the document
StepsPerChunk == 1 + max_retries + 1 + (Len(chunks) + 2)

\* steps of the current chunk already taken
StepsTaken ==
    CASE pc = "loop" -> 0
      [] pc = "call" -> 1 + attempt
      [] pc = "open" -> 1 + max_retries
      [] pc = "dump" -> 1 + max_retries + 1 + Len(disk.text)
      [] OTHER -> 0

\* steps the run still has to take, at most
Remaining ==
    IF Running THEN (Len(chunks) - i) * StepsPerChunk - StepsTaken + 1 ELSE 0

\* model calls made so far for the chunk in hand
CallsForChunk ==
    CASE pc = "call" -> attempt
      [] pc \in {"open", "dump"} -> attempt + 1
      [] OTHER -> 0

C10_Bounded ==
    /\ Running => (start <= Len(chunks) /\ i <= Len(chunks)
                    /\ calls_made <= (i - start) * max_retries + CallsForChunk
                    /\ CallsForChunk <= max_retries)
    /\ Running => calls_made <= (Len(chunks) - start) * max_retries
    /\ (pc = "call" /\ ~overwrite) => i >= seen
    /\ (pc = "call" /\ ~overwrite /\ Loadable) =>
          \A j \in 1..Len(Persisted) : HasError(Persisted[j]) => i > j - 1
    /\ Running => (Remaining >= 1 /\ ENABLED (NextChunk \/ Attempt \/ OpenFile \/ WriteStep))

C10_Step ==
    /\ (Running /\ Running') => Remaining' < Remaining
    /\ (ModelCall /\ ~Succeeded(response') /\ attempt = max_retries - 1) =>
          (pc' = "open" /\ HasError(result'.chunks[i + 1]))
    /\ (PersistCompletes /\ HasError(result.chunks[i + 1])) =>
          (seen' = i + 1 /\ i' = i + 1 /\ poisoned' # -1)

C10_PoisonedChunkAdvances == [](C10_Bounded) /\ [][C10_Step]_vars

C10_NeverCalledAgain ==
    /\ [](C10_Bounded)
    /\ [][C10_Step]_vars
    /\ [][(ModelCall /\ ~overwrite) => i # poisoned]_vars

\* chunk 0 failed on every attempt in an earlier run; a later run without
\* overwrite resumed after it and calls the model for chunk 1
C10_Witness ==
    /\ pc = "call" /\ ~overwrite
    /\ start = 1 /\ i = 1 /\ n_chunks = 3
    /\ calls_made = 1
    /\ Loadable /\ HasError(Persisted[1])

(***************************************************************************)
(* C11: when persisting the checkpoint for chunk i fails with an I/O       *)
(* error, process_file stops processing the document and the checkpoint    *)
(* on disk holds exactly results 0..i-1 (no file yet when i = 0 in a       *)
(* first run), so that a later run without overwrite resumes at chunk i.   *)
(***************************************************************************)
\* the step in which open or json.dump raises
PersistFails == Running /\ last'.how = "persist_failed"

C11_PersistFailureKeepsCheckpoint ==
    [][PersistFails =>
          /\ pc' = "idle"
          /\ IF disk'.exists
             THEN Loadable' /\ Persisted' = SubSeq(result.chunks, 1, i)
             ELSE i = 0]_vars

(***************************************************************************)
(* C13: with overwrite, process_file ignores an existing checkpoint file:  *)
(* it starts from zero results and calls the generator for every chunk     *)
(* from index 0.                                                           *)
(*   C13_OverwriteDoneHoldsRun, the claim as stated: for every chunk count *)
(*   n >= 0, when the run reaches Done the checkpoint on disk holds        *)
(*   exactly the n results of this run.                                    *)
(*   C13_OverwriteStartsAfresh, as amended: for n >= 1; with n = 0 the run *)
(*   reaches Done without a write and leaves the file (or its absence) as  *)
(*   it found it.                                                          *)
(***************************************************************************)
\* the run with overwrite is at the end of its loop, or has just left it
OverwriteDone ==
    \/ pc = "loop" /\ overwrite /\ i = Len(chunks)
    \/ pc = "idle" /\ overwrite /\ last.how = "done"

C13_OverwriteDoneHoldsRun ==
    OverwriteDone => (Loadable /\ Len(Persisted) = n_chunks)

C13_FromZero ==
    /\ (Running /\ overwrite) =>
          /\ start = 0
          /\ Len(generated) = Len(result.chunks)
          /\ result.source_filepath = SourcePath
          /\ result.markdown_text = MarkdownText
    /\ (pc = "call" /\ overwrite) => calls_made >= i
    /\ (OverwriteDone /\ n_chunks >= 1) => (Loadable /\ Len(Persisted) = n_chunks)
    /\ (pc = "loop" /\ overwrite /\ i = Len(chunks) /\ n_chunks >= 1) =>
          /\ Persisted = result.chunks
          /\ Len(generated) = n_chunks
          /\ \A j \in 1..n_chunks : AsGenerated(Persisted[j], generated[j])

C13_Step ==
    /\ (pc = "idle" /\ overwrite' /\ last'.how # "convert_failed") =>
          /\ pc' = "loop"
          /\ result' = FreshResult(SourcePath, MarkdownText)
          /\ start' = 0 /\ i' = 0
          /\ disk' = disk
    /\ (ModelCall /\ overwrite /\ calls_made = 0) => i = 0
    /\ (Running /\ overwrite /\ last'.how = "done" /\ pc' = "idle") =>
          /\ disk' = disk
          /\ n_chunks = 0 => calls_made = 0

C13_OverwriteStartsAfresh == [](C13_FromZero) /\ [][C13_Step]_vars

\* a checkpoint of three results was there; a run with overwrite has replaced
\* it by three results of its own
C13_Witness ==
    /\ pc = "loop" /\ overwrite
    /\ last.how = "done"
    /\ start = 0 /\ i = 3 /\ n_chunks = 3
    /\ calls_made >= 3
    /\ Loadable /\ Persisted = result.chunks

(***************************************************************************)
(* C14: a model call that returns an empty JSON array ends                 *)
(* generate_qa_pairs at once, with no retry and no temperature change;     *)
(* process_chunk stores a result with an empty qa_pairs list and no error  *)
(* field, and the chunk counts as processed.                               *)
(***************************************************************************)
EmptyArray(resp) == Succeeded(resp) /\ resp.value = <<>>

C14_Step ==
    /\ (ModelCall /\ EmptyArray(response')) =>
          /\ pc' = "open"
          /\ attempt' = attempt
          /\ temperature' = temperature
          /\ result'.chunks =
                Append(result.chunks, [chunk_text |-> chunks[i + 1], qa_pairs |-> <<>>])
          /\ generated' = Append(generated, [ok |-> TRUE, output |-> <<>>, msg |-> ""])
    /\ (PersistCompletes /\ EmptyArray(response)) =>
          /\ i' = i + 1
          /\ calls_made' = calls_made
          /\ Loadable'
          /\ Persisted'[i + 1] = [chunk_text |-> chunks[i + 1], qa_pairs |-> <<>>]

C14_Settled ==
    /\ (Settled /\ EmptyArray(response)) =>
          /\ ~HasError(result.chunks[i + 1])
          /\ result.chunks[i + 1].qa_pairs = <<>>
    /\ (pc = "call" /\ ~overwrite /\ Loadable) => i >= Len(Persisted)

C14_EmptyArrayAccepted == [](C14_Settled) /\ [][C14_Step]_vars

\* the first call for chunk 0 returned an empty array; its result is persisted
\* and the run is at chunk 1
C14_Witness ==
    /\ pc = "call" /\ start = 0 /\ i = 1
    /\ calls_made = 1
    /\ Loadable /\ Len(Persisted) = 1
    /\ Persisted[1].qa_pairs = <<>> /\ ~HasError(Persisted[1])

(***************************************************************************)
(* C15: attempt number j (0-based) of generate_qa_pairs uses temperature   *)
(* base + j * step, where base is the temperature given to process_file;   *)
(* the temperature rises by exactly one step after each failed attempt     *)
(* that is not the last, and the first attempt of every chunk is at base   *)
(* again.                                                                  *)
(***************************************************************************)
C15_AtCall ==
    /\ pc = "call" => temperature = base_temperature + attempt * TemperatureIncrement
    /\ Settled => temperature = base_temperature + attempt * TemperatureIncrement

C15_Step ==
    /\ (ModelCall /\ pc' = "call") =>
          (attempt' = attempt + 1 /\ temperature' = temperature + TemperatureIncrement)
    /\ (ModelCall /\ pc' = "open") => temperature' = temperature
    /\ (pc = "loop" /\ pc' = "call") =>
          (attempt' = 0 /\ temperature' = base_temperature)

C15_TemperatureEscalation == [](C15_AtCall) /\ [][C15_Step]_vars

\* chunk 0 took two retries; the first attempt for chunk 1 is at base again
C15_Witness ==
    /\ pc = "call" /\ i = 1 /\ start = 0
    /\ attempt = 0
    /\ calls_made = 3
    /\ base_temperature = 1 /\ temperature = 1

(***************************************************************************)
(* C20: every persisted ChunkResult has a chunk_text and a qa_pairs list;  *)
(* it has an error field exactly when all max_retries attempts for the     *)
(* chunk failed, and then qa_pairs is empty; the result of a successful    *)
(* attempt, also of a retry after failed attempts, carries the pairs of    *)
(* that attempt and no error field.                                        *)
(***************************************************************************)
WellFormed(cr) ==
    /\ {"chunk_text", "qa_pairs"} \subseteq DOMAIN cr
    /\ DOMAIN cr \subseteq {"chunk_text", "qa_pairs", "error"}
    /\ HasError(cr) => cr.qa_pairs = <<>>

C20_Shape ==
    /\ \A k \in 1..Len(OnDisk) : WellFormed(OnDisk[k])
    /\ \A k \in 1..Len(result.chunks) : WellFormed(result.chunks[k])
    /\ Settled =>
          /\ HasError(result.chunks[i + 1]) <=> ~Succeeded(response)
          /\ HasError(result.chunks[i + 1]) => CallsForChunk = max_retries
          /\ Succeeded(response) => result.chunks[i + 1].qa_pairs = response.value
    /\ (Running /\ Loadable /\ i > start) =>
          \A j \in (start + 1)..Len(Persisted) :
              HasError(Persisted[j]) <=> ~generated[j - start].ok

C20_Step ==
    (ModelCall /\ pc' = "open") =>
        LET cr == result'.chunks[i + 1] IN
        /\ HasError(cr) <=> (~Succeeded(response') /\ attempt = max_retries - 1)
        /\ Succeeded(response') =>
              (cr.qa_pairs = response'.value /\ cr.chunk_text = chunks[i + 1])

C20_ErrorIffAllAttemptsFailed == [](C20_Shape) /\ [][C20_Step]_vars

\* the third attempt for chunk 0 gave a pair after two failed attempts, and
\* the result, without an error field, is in the checkpoint
C20_Witness ==
    /\ pc = "loop" /\ start = 0 /\ i = 1
    /\ attempt = 2 /\ calls_made = 3
    /\ Loadable /\ Len(Persisted) = 1
    /\ Persisted[1].qa_pairs = <<GoodPair>> /\ ~HasError(Persisted[1])

(***************************************************************************)
(* C18: a run that resumes from a loaded checkpoint whose result count k   *)
(* differs from the chunk count n of this run keeps the loaded             *)
(* source_filepath, markdown_text and first k results unchanged in every   *)
(* checkpoint it writes; with k < n generation goes on from index k of the *)
(* new chunk sequence, with k > n there is no model call and no write.     *)
(***************************************************************************)
\* the run in hand has loaded a checkpoint (a fresh one starts from zero)
Resumed == Running /\ ~overwrite /\ start > 0

C18_Kept ==
    /\ Resumed =>
          /\ Len(result.chunks) >= start
          /\ chunks = chunker(MarkdownText, n_chunks)
          /\ disk.exists
          /\ Len(disk.text) >= 1 => disk.text[1] = HeadToken(result)
          /\ AgreeUpTo(OnDisk, result.chunks, start)
          /\ Loadable => SubSeq(Persisted, 1, start) = SubSeq(result.chunks, 1, start)
    /\ (Resumed /\ start > n_chunks) => (pc = "loop" /\ calls_made = 0)
    /\ (Resumed /\ pc = "call") => (start < n_chunks /\ i >= start)

C18_Step ==
    /\ (pc = "idle" /\ n_chunks' = n_chunks /\ ~overwrite'
           /\ last'.how # "convert_failed" /\ Loadable /\ Len(Persisted) # n_chunks) =>
          /\ pc' = "loop"
          /\ result' = json_load(disk.text)
          /\ start' = Len(Persisted) /\ i' = Len(Persisted)
          /\ chunks' = chunker(MarkdownText, n_chunks)
          /\ disk' = disk
    /\ (Resumed /\ Running') =>
          /\ result'.source_filepath = result.source_filepath
          /\ result'.markdown_text = result.markdown_text
          /\ SubSeq(result'.chunks, 1, start) = SubSeq(result.chunks, 1, start)
          /\ start' = start /\ n_chunks' = n_chunks
    /\ (Resumed /\ ModelCall /\ calls_made = 0) => (i = start /\ start < n_chunks)
    /\ (Resumed /\ ModelCall /\ pc' = "open") =>
          result'.chunks[i + 1].chunk_text = chunker(MarkdownText, n_chunks)[i + 1]
    /\ (Resumed /\ start > n_chunks) => (disk' = disk /\ pc' = "idle" /\ ~ModelCall)

C18_MismatchNotReconciled == [](C18_Kept) /\ [][C18_Step]_vars

\* a checkpoint holding the one result of a run over one chunk was resumed by
\* a run over two chunks, which has added the result of its second chunk
C18_Witness ==
    /\ pc = "loop" /\ ~overwrite
    /\ n_chunks = 2 /\ start = 1 /\ i = 2
    /\ Loadable /\ Len(Persisted) = 2
    /\ Persisted[1].chunk_text = chunker(MarkdownText, 1)[1]
    /\ Persisted[2].chunk_text = chunker(MarkdownText, 2)[2]

(***************************************************************************)
(* C12: whatever fails while one document of a batch is handled            *)
(* (conversion, the load of its checkpoint, a persist), process_file       *)
(* returns without raising and main goes on to every remaining document    *)
(* in input order; a conversion failure creates or modifies no checkpoint  *)
(* file.                                                                   *)
(***************************************************************************)
Failures == {"convert_failed", "load_failed", "persist_failed"}

C12_MainGoesOn ==
    /\ cursor <= Len(inputs)
    /\ Len(outcomes) = IF cursor = 0 THEN 0 ELSE cursor - 1
    /\ Running => output_file = OutputFile(inputs[cursor])
    /\ (pc = "idle" /\ cursor >= 1) => ~Raises(last.how)
    /\ (pc = "idle" /\ cursor < Len(inputs)) => ENABLED ProcessNextFile

C12_Step ==
    /\ (Running /\ pc' = "idle") =>
          (cursor' = cursor /\ inputs' = inputs /\ outcomes' = outcomes
           /\ ~Raises(last'.how))
    /\ (pc = "idle" /\ cursor' # cursor) =>
          /\ cursor' = cursor + 1
          /\ output_file' = OutputFile(inputs[cursor + 1])
          /\ inputs' = inputs
          /\ Directory' = Directory
          /\ cursor >= 1 => outcomes' = Append(outcomes, last.how)
          /\ last'.how \in Failures => pc' = "idle"

C12_BatchContinues == [](C12_MainGoesOn) /\ [][C12_Step]_vars

\* the same path was given twice: the persist failed in its first
\* process_file call, which left a file that the second call could not load,
\* and both calls returned
C12_Witness ==
    /\ Len(inputs) = 2 /\ inputs[1] = inputs[2]
    /\ cursor = 2
    /\ outcomes = <<"persist_failed">>
    /\ pc = "idle" /\ last.how = "load_failed"

(***************************************************************************)
(* C19: each document of a batch over distinct source paths has its own    *)
(* checkpoint: the checkpoint file process_file loads, skips on, resumes    *)
(* from or overwrites for one document was written for that same source    *)
(* path.                                                                   *)
(***************************************************************************)
DistinctPaths == \A j, k \in 1..Len(inputs) : inputs[j] = inputs[k] => j = k

\* the source path a file was written for, as far as the file tells
WrittenFor(file) ==
    IF file.exists /\ Len(file.text) >= 1 THEN {file.text[1].source_filepath} ELSE {}

C19_OwnCheckpointStep ==
    (DistinctPaths /\ pc = "idle" /\ cursor' = cursor + 1) =>
        WrittenFor(disk') \subseteq {inputs[cursor + 1]}

C19_OwnCheckpoint == [][C19_OwnCheckpointStep]_vars

(***************************************************************************)
(* C16: process_qa_file yields exactly one row per stored QA pair, in      *)
(* chunk order and then pair order; chunk_number is the position, from 1,  *)
(* of the chunk in the checkpoint's chunks list (chunks without pairs,     *)
(* failed ones included, yield no row and still count), qa_number the      *)
(* position, from 1, of the pair in its chunk.  Three chunks of one pair   *)
(* each yield three rows with chunk_number 1, 2, 3 and qa_number 1.        *)
(***************************************************************************)
RECURSIVE PairCount(_)
PairCount(crs) ==
    IF crs = <<>> THEN 0 ELSE Len(Head(crs).qa_pairs) + PairCount(Tail(crs))

\* row r comes before row t in chunk order, then pair order
Before(r, t) ==
    \/ r.chunk_number < t.chunk_number
    \/ r.chunk_number = t.chunk_number /\ r.qa_number < t.qa_number

\* the rows are those of the chunks before position cn and of the first qn
\* pairs of the chunk at cn
RowsUpTo(cn, qn) ==
    /\ Len(rows) = PairCount(SubSeq(data.chunks, 1, cn - 1)) + qn
    /\ \A r \in 1..Len(rows) :
          /\ rows[r].chunk_number \in 1..Len(data.chunks)
          /\ rows[r].qa_number \in 1..Len(data.chunks[rows[r].chunk_number].qa_pairs)
          /\ rows[r].question =
                data.chunks[rows[r].chunk_number].qa_pairs[rows[r].qa_number].question
          /\ rows[r].answer =
                data.chunks[rows[r].chunk_number].qa_pairs[rows[r].qa_number].answer
          /\ rows[r].file_path = data.source_filepath
    /\ \A r, t \in 1..Len(rows) : r < t => Before(rows[r], rows[t])

C16_RowsInOrder ==
    /\ csv_pc = "pairs" => RowsUpTo(chunk_number, qa_number)
    /\ csv_pc = "chunks" => RowsUpTo(chunk_number + 1, 0)
    /\ csv_pc = "end" =>
          /\ Len(rows) = PairCount(data.chunks)
          /\ RowsUpTo(Len(data.chunks) + 1, 0)
          /\ \A c \in 1..Len(data.chunks) :
                \A q \in 1..Len(data.chunks[c].qa_pairs) :
                    \E r \in 1..Len(rows) :
                        rows[r].chunk_number = c /\ rows[r].qa_number = q
          /\ (Len(data.chunks) = 3 /\ \A c \in 1..3 : Len(data.chunks[c].qa_pairs) = 1) =>
                /\ Len(rows) = 3
                /\ \A r \in 1..3 : rows[r].chunk_number = r /\ rows[r].qa_number = 1

C16_Step ==
    /\ rows' # rows =>
          /\ Len(rows') = Len(rows) + 1
          /\ SubSeq(rows', 1, Len(rows)) = rows
          /\ rows'[Len(rows')].chunk_number = chunk_number
          /\ rows'[Len(rows')].qa_number = qa_number'
    /\ data' = data

C16_OneRowPerPair == [](C16_RowsInOrder) /\ [][C16_Step]_vars

\* a checkpoint of a failed chunk, a chunk of two pairs and a chunk of one
\* pair has given rows (2, 1), (2, 2) and (3, 1)
C16_Witness ==
    /\ csv_pc = "end"
    /\ Len(data.chunks) = 3
    /\ HasError(data.chunks[1])
    /\ Len(rows) = 3
    /\ rows[1].chunk_number = 2 /\ rows[1].qa_number = 1
    /\ rows[2].chunk_number = 2 /\ rows[2].qa_number = 2
    /\ rows[3].chunk_number = 3 /\ rows[3].qa_number = 1

(***************************************************************************)
(* C17: convert reports an unsupported or unspecified file type by raising *)
(* ValueError for every kind of input (an existing file path whose         *)
(* extension is not .docx, .html or .pdf, and content that is no path with *)
(* a file_type that is None or not one of the three); it calls no          *)
(* converter for such a type and raises no other kind of error for it.     *)
(***************************************************************************)
\* the type convert has to go by: the file's extension, else file_type
TypeOf(inp, ft) == IF inp.kind = "file path" THEN Lower(inp.ext) ELSE ft

C17_UnsupportedIsValueError ==
    (returned # NotCalled /\ TypeOf(input_data, file_type) \notin DOMAIN supported_formats)
        => returned = Raised("ValueError")

====
